---- MODULE Spec2Model ----
(***************************************************************************)
(* State-machine model of src/main.py (Spotify Circle API): the account    *)
(* store, the connection-edge store, and the request handlers callback,    *)
(* connect_users, get_linked_users, suggest_links and compare_users.       *)
(* The external identity/catalog provider is the environment: it issues    *)
(* tokens, keeps each identity's top artists and tracks, and may fail any  *)
(* call.                                                                   *)
(***************************************************************************)
EXTENDS Integers, Sequences, FiniteSets, TLC

VARIABLES
    users,        \* table "users": row i has id i (autoincrement primary key)
    connections,  \* table "connections": rows in insertion order
    pending,      \* connect requests past the existence check, not yet committed
    fk_enforced,  \* whether the database behind DATABASE_URL enforces ForeignKey
    taste,        \* the provider's top artists / tracks of each identity
    now,          \* the provider's clock, in seconds
    ticks,        \* number of clock steps taken (bounds the clock)
    succeeded,    \* pairs <<a, b>> for which connect_users returned success
    result        \* the response of the last completed request

vars == <<users, connections, pending, fk_enforced, taste, now, ticks,
          succeeded, result>>

----------------------------------------------------------------------------
(* Bounds and input sets *)

MaxConnects == 2     \* connect requests admitted past the check
MaxPending == 2      \* connect requests in flight at once
MaxTicks == 2        \* clock steps

SpotifyIds == {"s1", "s2", "s3"}
Ids == 1..Cardinality(SpotifyIds)       \* account ids a request may name
AuthIds == {"s1", "s2"}                 \* identities that authenticate under Spec
TickSteps == {570, 3000}                \* seconds the clock may advance by
ExpiresIn == 60 * 60                    \* lifetime of an issued access token

TopLimit == 50

----------------------------------------------------------------------------
(* Generic helpers *)

Min(a, b) == IF a <= b THEN a ELSE b

Take(s, n) == SubSeq(s, 1, Min(n, Len(s)))

RECURSIVE SelectIdx(_, _, _)
\* the elements of s at the indices in keep, in order (i is the next index)
SelectIdx(s, keep, i) ==
    IF i > Len(s) THEN <<>>
    ELSE (IF i \in keep THEN <<s[i]>> ELSE <<>>) \o SelectIdx(s, keep, i + 1)

----------------------------------------------------------------------------
(* The account store *)

\* db.query(User).filter(User.id == user_id).first()
UserExists(user_id) == user_id \in DOMAIN users

\* db.query(User).filter(User.spotify_id == sid).first(), as the row id or 0
UserBySpotifyId(sid) ==
    IF \E i \in DOMAIN users : users[i].spotify_id = sid
    THEN CHOOSE i \in DOMAIN users : users[i].spotify_id = sid
    ELSE 0

\* the token_info the provider returns for an exchange at the current time
TokenInfo(sid) ==
    [access_token  |-> <<"access", sid, now + ExpiresIn>>,
     refresh_token |-> <<"refresh", sid, now>>,
     expires_at    |-> now + ExpiresIn]

\* the provider accepts an access token until its expiry instant
TokenValid(token) == token[3] > now

----------------------------------------------------------------------------
(* Responses *)

NoCompare ==
    [user1_top_artist |-> "", user1_top_track |-> "",
     user2_top_artist |-> "", user2_top_track |-> "",
     shared_track_count |-> 0, shared_artist_count |-> 0,
     shared_tracks |-> <<>>, shared_artists |-> <<>>]

Response(op, a, b, status) ==
    [op |-> op, a |-> a, b |-> b, status |-> status, at |-> now,
     user_id |-> 0, linked |-> {}, ranked |-> <<>>, cmp |-> NoCompare,
     calls |-> <<>>, fetched |-> {}, fail_at |-> 0]

----------------------------------------------------------------------------
(* GET /callback *)

CallbackStore(sid) ==
    LET info == TokenInfo(sid)
        uid  == UserBySpotifyId(sid)
        row  == [spotify_id |-> sid,
                 access_token |-> info.access_token,
                 refresh_token |-> info.refresh_token]
    IN IF uid = 0 THEN Append(users, row) ELSE [users EXCEPT ![uid] = row]

Callback(sid, ok) ==
    /\ IF ok
       THEN /\ users' = CallbackStore(sid)
            /\ result' = [Response("callback", 0, 0, 200)
                            EXCEPT !.user_id = IF UserBySpotifyId(sid) = 0
                                               THEN Len(users) + 1
                                               ELSE UserBySpotifyId(sid)]
       ELSE /\ users' = users
            /\ result' = Response("callback", 0, 0, 400)
    /\ UNCHANGED <<connections, pending, fk_enforced, taste, now, ticks, succeeded>>

----------------------------------------------------------------------------
(* POST /connect/{user_id}/{connected_user_id} *)

\* the query with both filters comparing against user_id
ExistingConnectionSameColumn(user_id, connected_user_id) ==
    \E i \in DOMAIN connections :
        /\ connections[i].user_id = user_id
        /\ connections[i].connected_user_id = user_id

\* the query of lines 215-218: is there a row user_id -> connected_user_id
ExistingConnection(user_id, connected_user_id) ==
    \E i \in DOMAIN connections :
        /\ connections[i].user_id = user_id
        /\ connections[i].connected_user_id = connected_user_id

\* the insert with the reverse row left out
NewConnectionsForwardOnly(user_id, connected_user_id) ==
    << [user_id |-> user_id, connected_user_id |-> connected_user_id] >>

\* the two rows of db.add_all
NewConnections(user_id, connected_user_id) ==
    << [user_id |-> user_id, connected_user_id |-> connected_user_id],
       [user_id |-> connected_user_id, connected_user_id |-> user_id] >>

\* db.commit() raises IntegrityError when the store enforces the foreign keys
\* and a row names a missing account
CommitAccepted(user_id, connected_user_id) ==
    fk_enforced => (UserExists(user_id) /\ UserExists(connected_user_id))

\* the existence check: reject a duplicate, else go on to the insert
ConnectCheck(user_id, connected_user_id) ==
    /\ IF ExistingConnection(user_id, connected_user_id)
       THEN /\ result' = Response("connect", user_id, connected_user_id, 400)
            /\ pending' = pending
       ELSE /\ Len(pending) < MaxPending
            /\ Len(connections) + 2 * (Len(pending) + 1) <= 2 * MaxConnects
            /\ pending' = Append(pending, <<user_id, connected_user_id>>)
            /\ result' = result
    /\ UNCHANGED <<users, connections, fk_enforced, taste, now, ticks, succeeded>>

\* the insert of both rows and the commit, for the i-th request in flight
ConnectCommit(i) ==
    /\ i \in DOMAIN pending
    /\ LET a == pending[i][1]
           b == pending[i][2]
       IN IF CommitAccepted(a, b)
          THEN /\ connections' = connections \o NewConnections(a, b)
               /\ succeeded' = succeeded \cup {<<a, b>>}
               /\ result' = Response("connect", a, b, 200)
          ELSE /\ connections' = connections
               /\ succeeded' = succeeded
               /\ result' = Response("connect", a, b, 500)
    /\ pending' = SelectIdx(pending, DOMAIN pending \ {i}, 1)
    /\ UNCHANGED <<users, fk_enforced, taste, now, ticks>>

----------------------------------------------------------------------------
(* GET /linked-users/{user_id} *)

\* [conn.connected_user_id for conn in connections], as a set (it feeds IN)
linked_user_ids(user_id) ==
    {connections[i].connected_user_id :
        i \in {j \in DOMAIN connections : connections[j].user_id = user_id}}

\* db.query(User).filter(User.id.in_(linked_user_ids)).all(), as the row ids
get_linked_users(user_id) ==
    {u \in DOMAIN users : u \in linked_user_ids(user_id)}

Linked(user_id) ==
    /\ result' = [Response("linked", user_id, 0, 200)
                    EXCEPT !.linked = get_linked_users(user_id)]
    /\ UNCHANGED <<users, connections, pending, fk_enforced, taste, now, ticks,
                   succeeded>>

----------------------------------------------------------------------------
(* The external catalog: what the provider returns for an identity *)

Item(id, img) == [id |-> id, img |-> img]

ProfileX == [artists |-> <<Item("a1", TRUE), Item("a2", TRUE), Item("a3", FALSE)>>,
             tracks  |-> <<Item("t1", TRUE), Item("t2", TRUE)>>]
ProfileY == [artists |-> <<Item("a2", TRUE), Item("a3", TRUE), Item("a4", TRUE)>>,
             tracks  |-> <<Item("t2", TRUE), Item("t3", TRUE)>>]
ProfileZ == [artists |-> <<Item("a4", FALSE)>>,
             tracks  |-> <<Item("t3", FALSE)>>]
ProfileW == [artists |-> <<Item("a3", TRUE), Item("a1", TRUE)>>,
             tracks  |-> <<Item("t2", TRUE), Item("t1", FALSE)>>]
ProfileE == [artists |-> <<>>, tracks |-> <<>>]

Profiles == {ProfileX, ProfileY, ProfileZ, ProfileW, ProfileE}

\* the taste data of the example: X and Y share a2 and a3, Z shares nothing with X
TasteExample ==
    [s \in SpotifyIds |->
        IF s = "s1" THEN ProfileX ELSE IF s = "s2" THEN ProfileY ELSE ProfileZ]

\* the items of a response carry the copy of the record served to that account
Copies(items, sid) ==
    [i \in DOMAIN items |-> [id |-> items[i].id, copy |-> sid, img |-> items[i].img]]

\* sp.current_user_top_artists(limit=n)["items"] with the account's token
current_user_top_artists(sid, limit) == Take(Copies(taste[sid].artists, sid), limit)

\* sp.current_user_top_tracks(limit=n)["items"] with the account's token
current_user_top_tracks(sid, limit) == Take(Copies(taste[sid].tracks, sid), limit)

\* {item["id"] for item in items}
IdSet(items) == {items[i].id : i \in DOMAIN items}

Call(api, sid, limit) == [api |-> api, sid |-> sid, limit |-> limit]

\* the accounts whose stored access token the provider still accepts
ValidUsers == {u \in DOMAIN users : TokenValid(users[u].access_token)}

----------------------------------------------------------------------------
(* GET /suggested-links/{user_id} *)

\* db.query(User).filter(User.id != user_id).all(), in id order
all_users(user_id) ==
    SelectIdx([i \in DOMAIN users |-> i], DOMAIN users \ {user_id}, 1)

Suggestion(u, overlap) ==
    [id |-> u, spotify_id |-> users[u].spotify_id, shared_artist_count |-> overlap]

RECURSIVE SuggestionsBreak(_, _, _, _)
\* the loop leaving at the first failed fetch instead of skipping it
SuggestionsBreak(cand, fetched, current_artist_ids, i) ==
    IF i > Len(cand) \/ cand[i] \notin fetched THEN <<>>
    ELSE LET u == cand[i]
             overlap == Cardinality(current_artist_ids \cap
                          {taste[users[u].spotify_id].artists[k].id :
                              k \in DOMAIN taste[users[u].spotify_id].artists})
         IN (IF overlap > 0
             THEN <<[id |-> u, spotify_id |-> users[u].spotify_id,
                     shared_artist_count |-> overlap]>>
             ELSE <<>>)
            \o SuggestionsBreak(cand, fetched, current_artist_ids, i + 1)

RECURSIVE Suggestions(_, _, _, _)
\* the loop of lines 192-204 over candidates cand[i..]; fetched is the set of
\* candidates whose fetch succeeds (a failed fetch is caught and skipped)
Suggestions(cand, fetched, current_artist_ids, i) ==
    IF i > Len(cand) THEN <<>>
    ELSE LET u == cand[i]
             overlap == Cardinality(current_artist_ids \cap
                          IdSet(current_user_top_artists(users[u].spotify_id, TopLimit)))
         IN (IF u \in fetched /\ overlap > 0 THEN <<Suggestion(u, overlap)>> ELSE <<>>)
            \o Suggestions(cand, fetched, current_artist_ids, i + 1)

\* the insertion of a sort without reverse=True
InsertAsc(sorted, x) ==
    LET before == {i \in DOMAIN sorted :
                      sorted[i].shared_artist_count <= x.shared_artist_count}
        k == Cardinality(before)
    IN SubSeq(sorted, 1, k) \o <<x>> \o SubSeq(sorted, k + 1, Len(sorted))

\* insertion point of x in a list sorted by count descending, after its equals
InsertDesc(sorted, x) ==
    LET before == {i \in DOMAIN sorted :
                      sorted[i].shared_artist_count >= x.shared_artist_count}
        k == Cardinality(before)
    IN SubSeq(sorted, 1, k) \o <<x>> \o SubSeq(sorted, k + 1, Len(sorted))

RECURSIVE SortDesc(_, _)
\* suggestions.sort(key=shared_artist_count, reverse=True): stable, descending
SortDesc(s, i) ==
    IF i = 0 THEN <<>> ELSE InsertDesc(SortDesc(s, i - 1), s[i])

\* the list suggest_links returns once the subject's own fetch has succeeded
suggest_links(user_id, fetched) ==
    LET current_artist_ids ==
            IdSet(current_user_top_artists(users[user_id].spotify_id, TopLimit))
        suggestions == Suggestions(all_users(user_id), fetched, current_artist_ids, 1)
    IN SortDesc(suggestions, Len(suggestions))

RankCalls(user_id, subject_ok) ==
    LET cand == all_users(user_id)
    IN <<Call("top_artists", users[user_id].spotify_id, TopLimit)>> \o
       (IF subject_ok
        THEN [i \in DOMAIN cand |-> Call("top_artists", users[cand[i]].spotify_id, TopLimit)]
        ELSE <<>>)

\* the handler with the candidates' fetches outside the try as well
RankUncaught(user_id, fetched) ==
    /\ fetched \subseteq {u \in DOMAIN users : users[u].access_token[3] > now}
    /\ result' =
         IF user_id \notin DOMAIN users
         THEN [op |-> "rank", a |-> user_id, b |-> 0, status |-> 404, at |-> now,
               user_id |-> 0, linked |-> {}, ranked |-> <<>>, cmp |-> result.cmp,
               calls |-> <<>>, fetched |-> {}, fail_at |-> 0]
         ELSE [op |-> "rank", a |-> user_id, b |-> 0,
               status |-> IF DOMAIN users \subseteq fetched THEN 200 ELSE 500,
               at |-> now, user_id |-> 0, linked |-> {}, ranked |-> <<>>,
               cmp |-> result.cmp, calls |-> <<>>, fetched |-> fetched,
               fail_at |-> 0]
    /\ UNCHANGED <<users, connections, pending, fk_enforced, taste, now, ticks,
                   succeeded>>

\* fetched: the accounts whose top-artists call succeeds in this request; the
\* subject's call (line 185) is outside the try, so its failure is not caught
Rank(user_id, fetched) ==
    /\ fetched \subseteq ValidUsers
    /\ result' =
         IF ~UserExists(user_id) THEN Response("rank", user_id, 0, 404)
         ELSE IF user_id \notin fetched
         THEN [Response("rank", user_id, 0, 500)
                 EXCEPT !.calls = RankCalls(user_id, FALSE),
                        !.fetched = fetched]
         ELSE [Response("rank", user_id, 0, 200)
                 EXCEPT !.ranked = suggest_links(user_id, fetched),
                        !.calls = RankCalls(user_id, TRUE),
                        !.fetched = fetched]
    /\ UNCHANGED <<users, connections, pending, fk_enforced, taste, now, ticks,
                   succeeded>>

----------------------------------------------------------------------------
(* GET /compare/{user_id}/{connected_user_id} *)

\* Python dict as an insertion-ordered list of entries: a repeated key keeps
\* its first position and takes the last value
DictPut(d, k, v) ==
    IF \E i \in DOMAIN d : d[i].key = k
    THEN [i \in DOMAIN d |-> IF d[i].key = k THEN [key |-> k, value |-> v] ELSE d[i]]
    ELSE Append(d, [key |-> k, value |-> v])

RECURSIVE ItemMap(_, _)
\* {item["id"]: item for item in items[1..n]}
ItemMap(items, n) ==
    IF n = 0 THEN <<>> ELSE DictPut(ItemMap(items, n - 1), items[n].id, items[n])

DictKeys(d) == {d[i].key : i \in DOMAIN d}

\* the record built for a shared track or artist (lines 312-317, 328-332):
\* the name and url of the copy, and its first image or None
Materialize(item) ==
    [name |-> item.id, copy |-> item.copy,
     image |-> IF item.img THEN "url" ELSE "None"]

\* [record(v) for k, v in map1.items() if k in shared_ids]
Common(map1, shared_ids) ==
    LET kept == SelectIdx(map1, {i \in DOMAIN map1 : map1[i].key \in shared_ids}, 1)
    IN [i \in DOMAIN kept |-> Materialize(kept[i].value)]

\* the shared items materialized from the second account's records
SharedFromUser2(user1_raw, user2_raw) ==
    LET user2_map == ItemMap(user2_raw, Len(user2_raw))
        shared_ids == DictKeys(user2_map) \cap IdSet(user1_raw)
    IN Common(user2_map, shared_ids)

\* the shared items without the intersection with the second account's ids
SharedUnfiltered(user1_raw, user2_raw) ==
    LET user1_map == ItemMap(user1_raw, Len(user1_raw))
    IN Common(user1_map, DictKeys(user1_map))

\* lines 306-335: the shared tracks or artists of two fetched item lists
Shared(user1_raw, user2_raw) ==
    LET user1_map == ItemMap(user1_raw, Len(user1_raw))
        user2_ids == IdSet(user2_raw)
        shared_ids == DictKeys(user1_map) \cap user2_ids
    IN Common(user1_map, shared_ids)

\* the ten external calls of lines 289-304, in order
CompareCalls(s1, s2) ==
    << Call("current_user", s1, 0),       Call("current_user", s2, 0),
       Call("top_artists", s1, 1),        Call("top_artists", s2, 1),
       Call("top_tracks", s1, 1),         Call("top_tracks", s2, 1),
       Call("top_tracks", s1, TopLimit),  Call("top_tracks", s2, TopLimit),
       Call("top_artists", s1, TopLimit), Call("top_artists", s2, TopLimit) >>

\* the call after which ["items"][0] raises IndexError (lines 293-297), or 0
IndexErrorAt(s1, s2) ==
    IF current_user_top_artists(s1, 1) = <<>> THEN 3
    ELSE IF current_user_top_artists(s2, 1) = <<>> THEN 4
    ELSE IF current_user_top_tracks(s1, 1) = <<>> THEN 5
    ELSE IF current_user_top_tracks(s2, 1) = <<>> THEN 6
    ELSE 0

\* lines 345 and 361 index the top track's album images without a guard
TopTrackImageMissing(s1, s2) ==
    \/ ~current_user_top_tracks(s1, 1)[1].img
    \/ ~current_user_top_tracks(s2, 1)[1].img

\* the body of the response (lines 337-374) when every call has succeeded
compare_users(s1, s2) ==
    LET common_tracks == Shared(current_user_top_tracks(s1, TopLimit),
                                current_user_top_tracks(s2, TopLimit))
        common_artists == Shared(current_user_top_artists(s1, TopLimit),
                                 current_user_top_artists(s2, TopLimit))
    IN [user1_top_artist |-> current_user_top_artists(s1, 1)[1].id,
        user1_top_track  |-> current_user_top_tracks(s1, 1)[1].id,
        user2_top_artist |-> current_user_top_artists(s2, 1)[1].id,
        user2_top_track  |-> current_user_top_tracks(s2, 1)[1].id,
        shared_track_count  |-> Len(common_tracks),
        shared_artist_count |-> Len(common_artists),
        shared_tracks  |-> common_tracks,
        shared_artists |-> common_artists]

\* the first call the provider must refuse because the token has expired, or 0
FirstRefused(user_id, connected_user_id) ==
    IF user_id \notin ValidUsers THEN 1
    ELSE IF connected_user_id \notin ValidUsers THEN 2
    ELSE 0

\* fail_at: the external call that fails in this request (0: none does)
Compare(user_id, connected_user_id, fail_at) ==
    /\ result' =
         IF ~UserExists(user_id) \/ ~UserExists(connected_user_id)
         THEN Response("compare", user_id, connected_user_id, 404)
         ELSE LET s1 == users[user_id].spotify_id
                  s2 == users[connected_user_id].spotify_id
                  idx == IndexErrorAt(s1, s2)
                  made == IF idx # 0 /\ (fail_at = 0 \/ idx < fail_at) THEN idx
                          ELSE IF fail_at # 0 THEN fail_at
                          ELSE Len(CompareCalls(s1, s2))
                  raised == \/ fail_at # 0
                            \/ idx # 0
                            \/ TopTrackImageMissing(s1, s2)
              IN IF raised
                 THEN [Response("compare", user_id, connected_user_id, 500)
                         EXCEPT !.calls = Take(CompareCalls(s1, s2), made),
                                !.fail_at = fail_at]
                 ELSE [Response("compare", user_id, connected_user_id, 200)
                         EXCEPT !.cmp = compare_users(s1, s2),
                                !.calls = CompareCalls(s1, s2)]
    /\ (UserExists(user_id) /\ UserExists(connected_user_id)) =>
          LET refused == FirstRefused(user_id, connected_user_id)
          IN IF refused = 0 THEN TRUE ELSE fail_at \in 1..refused
    /\ UNCHANGED <<users, connections, pending, fk_enforced, taste, now, ticks,
                   succeeded>>

----------------------------------------------------------------------------
(* Time passing at the provider *)

Tick(d) ==
    /\ ticks < MaxTicks
    /\ now' = now + d
    /\ ticks' = ticks + 1
    /\ UNCHANGED <<users, connections, pending, fk_enforced, taste, succeeded, result>>

----------------------------------------------------------------------------
(* Specifications *)

\* the state after construction: empty tables (Base.metadata.create_all)
Init ==
    /\ users = <<>>
    /\ connections = <<>>
    /\ pending = <<>>
    /\ fk_enforced \in BOOLEAN
    /\ taste = TasteExample
    /\ now = 0
    /\ ticks = 0
    /\ succeeded = {}
    /\ result = Response("none", 0, 0, 0)

DoCallback == \E sid \in AuthIds, ok \in BOOLEAN : Callback(sid, ok)
DoConnectCheck == \E a \in Ids, b \in Ids : ConnectCheck(a, b)
DoConnectCommit == \E i \in 1..MaxPending : ConnectCommit(i)
DoLinked == \E a \in Ids : Linked(a)
DoRank == \E a \in Ids, fetched \in SUBSET Ids : Rank(a, fetched)
DoCompare == \E a \in Ids, b \in Ids, fail_at \in 0..10 : Compare(a, b, fail_at)
DoTick == \E d \in TickSteps : Tick(d)

\* the account and connection stores under authentication and connect requests
\* (requests name ids 1..3; at most two accounts exist, so one id is always missing)
Next == DoCallback \/ DoConnectCheck \/ DoConnectCommit \/ DoLinked

Spec == Init /\ [][Next]_vars

\* a store of accounts after that many successful authentications at time 0
Store(sids) ==
    [i \in DOMAIN sids |->
        [spotify_id |-> sids[i],
         access_token |-> <<"access", sids[i], ExpiresIn>>,
         refresh_token |-> <<"refresh", sids[i], 0>>]]

Stores == {Store(<<"s1", "s2", "s3">>), Store(<<"s3", "s1">>)}

\* the affinity engine over every choice of taste data and the stores above
InitAffinity ==
    /\ users \in Stores
    /\ connections = <<>>
    /\ pending = <<>>
    /\ fk_enforced = TRUE
    /\ taste \in [SpotifyIds -> Profiles]
    /\ now = 0
    /\ ticks = 0
    /\ succeeded = {}
    /\ result = Response("none", 0, 0, 0)

NextAffinity == DoRank \/ DoCompare

SpecAffinity == InitAffinity /\ [][NextAffinity]_vars

\* the catalog requests of authenticated accounts as their tokens age
InitCredential ==
    /\ users = Store(<<"s1", "s2", "s3">>)
    /\ connections = <<>>
    /\ pending = <<>>
    /\ fk_enforced = TRUE
    /\ taste = TasteExample
    /\ now = 0
    /\ ticks = 0
    /\ succeeded = {}
    /\ result = Response("none", 0, 0, 0)

NextCredential == DoTick \/ DoRank \/ DoCompare

SpecCredential == InitCredential /\ [][NextCredential]_vars

----------------------------------------------------------------------------
(* Connection graph: claims checked under Spec *)

\* C1: once connect(A,B) has succeeded, every connect(A,B) request begun
\* afterwards is rejected with the 400 "already connected" error and neither
\* inserts rows nor goes on to the insert.
C1_DuplicateRejected ==
    [][\A a \in Ids, b \in Ids :
         (<<a, b>> \in succeeded /\ ConnectCheck(a, b)) =>
            /\ result'.op = "connect" /\ result'.a = a /\ result'.b = b
            /\ result'.status = 400
            /\ connections' = connections
            /\ pending' = pending]_vars

C1_Witness ==
    /\ result.op = "connect"
    /\ result.status = 400
    /\ <<result.a, result.b>> \in succeeded

\* C2: for accounts A and B, once connect(A,B) has succeeded, linked(A)
\* contains B and linked(B) contains A, in that state and ever after.
C2_BothDirectionsLinked ==
    \A p \in succeeded :
        (UserExists(p[1]) /\ UserExists(p[2])) =>
            /\ p[2] \in get_linked_users(p[1])
            /\ p[1] \in get_linked_users(p[2])

C2_Witness ==
    \E p \in succeeded :
        /\ UserExists(p[1]) /\ UserExists(p[2]) /\ p[1] # p[2]
        /\ result.op = "linked" /\ result.a = p[2] /\ p[1] \in result.linked
        /\ Len(connections) > 2

\* C9: no stored edge has a source or target that is not an existing account,
\* so linked(A) is exactly the set of targets of A's edges.
C9_NoDanglingEdge ==
    /\ \A i \in DOMAIN connections :
          /\ UserExists(connections[i].user_id)
          /\ UserExists(connections[i].connected_user_id)
    /\ \A a \in Ids : get_linked_users(a) = linked_user_ids(a)

\* C10: for every ordered pair (A,B) of accounts there is at most one stored
\* edge A->B.
C10_AtMostOneEdge ==
    \A a \in DOMAIN users, b \in DOMAIN users :
        Cardinality({i \in DOMAIN connections :
                        /\ connections[i].user_id = a
                        /\ connections[i].connected_user_id = b}) <= 1

----------------------------------------------------------------------------
(* Affinity engine: claims checked under SpecAffinity *)

\* the ids of an account's top artists and tracks, read off the taste data
ArtistIdsOf(u) ==
    LET items == taste[users[u].spotify_id].artists
    IN {items[i].id : i \in DOMAIN items}

TrackIdsOf(u) ==
    LET items == taste[users[u].spotify_id].tracks
    IN {items[i].id : i \in DOMAIN items}

Overlap(a, u) == Cardinality(ArtistIdsOf(a) \cap ArtistIdsOf(u))

RankReturned == result.op = "rank" /\ result.status = 200

CompareReturned == result.op = "compare" /\ result.status = 200

\* C3: the list Rank(subject) returns never contains the subject, never
\* contains an account with no top artist in common with the subject, and is
\* ordered by overlap count non-increasing.
C3_RankedList ==
    RankReturned =>
        LET r == result.ranked
        IN /\ \A i \in DOMAIN r : r[i].id # result.a
           /\ \A i \in DOMAIN r : UserExists(r[i].id) /\ Overlap(result.a, r[i].id) > 0
           /\ \A i \in DOMAIN r, j \in DOMAIN r :
                 i < j => r[i].shared_artist_count >= r[j].shared_artist_count

C3_Witness ==
    /\ RankReturned
    /\ Len(result.ranked) >= 2
    /\ result.ranked[1].shared_artist_count > result.ranked[2].shared_artist_count
    /\ result.ranked[1].id > result.ranked[2].id
    /\ Overlap(result.a, result.a) > 0

\* C4: when the fetch of some candidates fails, the list still holds every
\* other candidate whose fetch succeeded and whose overlap is at least 1,
\* with the overlap count it has when no fetch fails.
C4_ErrorIsolation ==
    RankReturned =>
        \A u \in DOMAIN users \ {result.a} :
            (u \in result.fetched /\ Overlap(result.a, u) >= 1) =>
                \E i \in DOMAIN result.ranked :
                    /\ result.ranked[i].id = u
                    /\ result.ranked[i].spotify_id = users[u].spotify_id
                    /\ result.ranked[i].shared_artist_count = Overlap(result.a, u)

C4_Witness ==
    /\ RankReturned
    /\ \E u \in DOMAIN users \ {result.a}, v \in DOMAIN users \ {result.a} :
          /\ u < v
          /\ u \notin result.fetched /\ Overlap(result.a, u) >= 1
          /\ v \in result.fetched /\ Overlap(result.a, v) >= 1
          /\ \E i \in DOMAIN result.ranked : result.ranked[i].id = v

\* C8 as stated: for an existing subject Rank always ends in success,
\* whichever external fetches fail.
C8_RankAlwaysSucceeds ==
    (result.op = "rank" /\ UserExists(result.a)) => result.status = 200

\* C8 amended: for an existing subject Rank ends in success whichever
\* candidates' fetches fail, provided the subject's own fetch succeeds; when
\* the subject's own fetch fails the request ends in an error.
C8_RankSucceedsIffSubjectFetched ==
    (result.op = "rank" /\ UserExists(result.a)) =>
        /\ result.a \in result.fetched => result.status = 200
        /\ result.a \notin result.fetched => result.status = 500

C8_Witness ==
    /\ RankReturned
    /\ Len(users) > 2
    /\ result.fetched = {result.a}

\* C5: Compare(A,B) and Compare(B,A), one after the other over the same taste
\* data, return the same shared_track_count and the same shared_artist_count.
C5_CompareCountsSymmetric ==
    [][(/\ CompareReturned
        /\ result'.op = "compare" /\ result'.status = 200
        /\ result'.a = result.b /\ result'.b = result.a) =>
          /\ result'.cmp.shared_track_count = result.cmp.shared_track_count
          /\ result'.cmp.shared_artist_count = result.cmp.shared_artist_count]_vars

C5_Witness ==
    /\ CompareReturned
    /\ result.a > result.b
    /\ result.cmp.shared_artist_count = 2
    /\ result.cmp.shared_track_count >= 1
    /\ Cardinality(ArtistIdsOf(result.a)) # Cardinality(ArtistIdsOf(result.b))

\* C6: Compare(A,B) returns as shared artists (and tracks) exactly the items
\* whose ids are in both accounts' top-50 id sets, each from A's copy of the
\* record, and the two counts are the sizes of those intersections.
C6_SharedFromFirstAccount ==
    CompareReturned =>
        LET s1 == users[result.a].spotify_id
            artists == ArtistIdsOf(result.a) \cap ArtistIdsOf(result.b)
            tracks == TrackIdsOf(result.a) \cap TrackIdsOf(result.b)
            c == result.cmp
        IN /\ {c.shared_artists[i].name : i \in DOMAIN c.shared_artists} = artists
           /\ {c.shared_tracks[i].name : i \in DOMAIN c.shared_tracks} = tracks
           /\ \A i \in DOMAIN c.shared_artists : c.shared_artists[i].copy = s1
           /\ \A i \in DOMAIN c.shared_tracks : c.shared_tracks[i].copy = s1
           /\ Len(c.shared_artists) = Cardinality(artists)
           /\ Len(c.shared_tracks) = Cardinality(tracks)
           /\ c.shared_artist_count = Cardinality(artists)
           /\ c.shared_track_count = Cardinality(tracks)

C6_Witness ==
    /\ CompareReturned
    /\ result.a # result.b
    /\ result.cmp.shared_artist_count = 2
    /\ result.cmp.shared_track_count = 1
    /\ result.cmp.shared_artists[1].copy = users[result.a].spotify_id

====
